---- MODULE Spec2Model ----
(***************************************************************************)
(* Model of the AMOS sighting synchronisation utility.                     *)
(*                                                                         *)
(* Two revisions of the program live in the repository and both are        *)
(* modelled, selected by the variable prog:                                *)
(*   "tree"      classes/tree.py (DirectoryConvertor) together with        *)
(*               classes/processor.py (FileProcessor);                     *)
(*   "sightings" sightings.py (SightingManager), the older single file.    *)
(* They share the traversal loop of run(); they differ in how the dry-run  *)
(* gate is derived, in the order of the except clauses and in what the     *)
(* delete step returns.                                                    *)
(*                                                                         *)
(* One iteration of the loop is cut into steps at the system calls where   *)
(* the outside world can interfere (a stat, the process call, the delete   *)
(* call); pc is the position of the loop.                                  *)
(***************************************************************************)
EXTENDS Integers, Sequences, FiniteSets, TLC

VARIABLES
    prog,       \* which revision runs: "tree" or "sightings"
    config,     \* the resolved configuration (copy_files, delete_files, convert, older_than)
    real_run,   \* tree: FileProcessor.real_run; sightings: not dry_run
    src,        \* source tree: file -> [exists, mtime, data]
    tgt,        \* target tree: file -> [exists, mtime, data]
    tdirs,      \* directories that exist under the target root
    now,        \* the wall clock, in ticks
    pc,         \* position of run()
    run,        \* number of the current run (the tool is started again by hand)
    files,      \* sorted(files): the listing taken when the run started
    idx,        \* index in files of the file being visited
    cur,        \* the loop body's locals for the file being visited
    cnt,        \* the run counters
    hist,       \* history of the current run: what was really done to which file
    last,       \* the last step the program took, and how it ended
    envCount,   \* number of outside interferences so far
    prevClean   \* the run before this one ended with both failure counts 0

vars == <<prog, config, real_run, src, tgt, tdirs, now, pc, run, files, idx,
          cur, cnt, hist, last, envCount, prevClean>>

fsvars == <<src, tgt, tdirs>>

----------------------------------------------------------------------------
(* Bounds of the model *)

NumFiles == 2       \* files under the source root
InitNow  == 3       \* clock value when the tool is first started
MaxClock == 4       \* the clock stops advancing here
DayTicks == 2       \* clock ticks in a day
MaxRuns  == 2       \* successive runs of the tool
MaxEnv   == 1       \* outside removals of a source file

Files == 1..NumFiles

OlderThanValues == {1}      \* config.older_than, in days
SrcMtimes == {1, 2}         \* modification times of the source files at start
TgtMtimes == {1}            \* modification time of a target mirrored earlier:
                            \* as old as the older sources, older than the newer

\* The first file of the listing is a video (suffix .avi) in a
\* sub-directory; the others are plain files directly under the root.
IsAvi(f) == f = 1
DirOf(f) == IF f = 1 THEN "sub" ELSE "."

----------------------------------------------------------------------------
(* File contents. A file holds a sequence of bytes; the state names the    *)
(* content of each file (a blob) and Bytes gives the bytes of a blob.      *)

HeaderOffset == 188
Y16  == <<89, 49, 54, 32>>      \* b'Y16 '
Y800 == <<89, 56, 48, 48>>      \* b'Y800'

Min(a, b) == IF a < b THEN a ELSE b

\* A file of len bytes whose bytes at offsets 188..191 are tag (as far as
\* len reaches) and whose other bytes vary with the offset.
MkData(len, tag) ==
    [i \in 1..len |->
        IF i > HeaderOffset /\ i <= HeaderOffset + 4
        THEN tag[i - HeaderOffset]
        ELSE i % 5]

AviFaulty  == "avi-Y16"      \* a video with the faulty header
AviFixed   == "avi-Y800"     \* the same video with the header corrected
AviNear    == "avi-Y16-nul"  \* "Y16" and a NUL at the offset: not the faulty tag
AviShort   == "avi-short"    \* a file that ends inside the tag
AviData    == {AviFaulty, AviNear, AviShort}
PlainData  == "txt"          \* b.txt
OldTarget  == "old"          \* content mirrored by an earlier run
Empty      == "empty"
Unknown    == "other"        \* any content that has no name here

\* What the encoder may write: smaller than any source, or larger.
EncodedSmall == "enc-small"
EncodedLarge == "enc-large"
EncoderOutputs == {EncodedSmall, EncodedLarge}

Blobs == AviData \cup EncoderOutputs \cup {AviFixed, PlainData, OldTarget, Empty}

Bytes(blob) ==
    CASE blob = AviFaulty    -> MkData(194, Y16)
      [] blob = AviFixed     -> MkData(194, Y800)
      [] blob = AviNear      -> MkData(194, <<89, 49, 54, 0>>)
      [] blob = AviShort     -> MkData(190, Y16)
      [] blob = PlainData    -> <<1, 2, 3>>
      [] blob = OldTarget    -> <<9>>
      [] blob = EncodedSmall -> <<7, 7>>
      [] blob = EncodedLarge -> [i \in 1..196 |-> 7]
      [] OTHER               -> <<>>

\* The name of the content bytes
Blob(bytes) ==
    IF \E b \in Blobs : Bytes(b) = bytes
    THEN CHOOSE b \in Blobs : Bytes(b) = bytes
    ELSE Unknown

NoFile == [exists |-> FALSE, mtime |-> 0, data |-> Empty]
MkFile(m, d) == [exists |-> TRUE, mtime |-> m, data |-> d]

st_size(file) == Len(Bytes(file.data))

----------------------------------------------------------------------------
(* FileProcessor.correct_video_header / SightingManager.inspect_video_header *)

\* file.seek(188); file.read(4): the bytes at offsets 188..191 that exist
ReadPixelFormat(data) ==
    SubSeq(data, HeaderOffset + 1, Min(HeaderOffset + 4, Len(data)))

\* file.seek(188); file.write(b'Y800')
WriteY800(data) ==
    [i \in 1..Len(data) |->
        IF i > HeaderOffset /\ i <= HeaderOffset + 4
        THEN Y800[i - HeaderOffset]
        ELSE data[i]]

\* A header check that corrects the tag whatever the mode
correct_video_header_always(write, data) ==
    IF ReadPixelFormat(data) = Y16 THEN WriteY800(data) ELSE data

\* The content of the file after the call; write is the mode of the call.
correct_video_header(write, data) ==
    IF ReadPixelFormat(data) = Y16
    THEN IF write THEN WriteY800(data) ELSE data
    ELSE data

\* The older revision has no dry-run mode in the header check.
HeaderWrites == IF prog = "tree" THEN real_run ELSE TRUE

----------------------------------------------------------------------------
(* Configuration and run mode *)

\* tree.py: self.real_run = not (copy_files or delete_files)
tree_real_run(copy, delete) == ~(copy \/ delete)

\* sightings.py: self.dry_run = not (copy_files or delete_files)
sightings_dry_run(copy, delete) == ~(copy \/ delete)

\* The gate of copy and of the encoder run
CopyGate == IF prog = "tree" THEN real_run ELSE config.copy_files

\* The gate of unlink
DeleteGate == IF prog = "tree" THEN real_run ELSE config.delete_files

----------------------------------------------------------------------------
(* Counters, locals, history *)

ZeroCounters ==
    [inspected |-> 0, inspected_size |-> 0,
     processed |-> 0, process_failed |-> 0, processed_size |-> 0,
     reclaimed_size |-> 0,
     deleted |-> 0, delete_failed |-> 0, deleted_size |-> 0]

NoLocals ==
    [source_age |-> 0, is_copied |-> FALSE, is_updated |-> FALSE,
     is_old |-> FALSE, should_process |-> FALSE, should_delete |-> FALSE,
     size |-> 0]

NoHist ==
    [visited |-> {}, wrote |-> {}, removed |-> {}, processCalled |-> {},
     processReturned |-> {}, deleteCalled |-> {}, deleteReturned |-> {},
     staleAtRemoval |-> {}, toDelete |-> {}, headerChecked |-> {}]

NoStep == [op |-> "none", file |-> 0, outcome |-> "none"]
Step(o, f, r) == [op |-> o, file |-> f, outcome |-> r]

\* timedelta.days: whole days, rounded down
days(age) == age \div DayTicks

----------------------------------------------------------------------------
(* Initial states *)

InitData(f, avidata) == IF IsAvi(f) THEN avidata ELSE {PlainData}

\* The first two files are of either age; further files are old ones.
InitMtimes(f) == IF f <= 2 THEN SrcMtimes ELSE {1}

InitFS(avidata) ==
    /\ src \in [Files -> {MkFile(m, d) : m \in SrcMtimes, d \in AviData \cup {PlainData}}]
    /\ \A f \in Files : src[f].data \in InitData(f, avidata)
    /\ \A f \in Files : src[f].mtime \in InitMtimes(f)
    /\ tgt \in [Files -> {NoFile} \cup {MkFile(m, OldTarget) : m \in TgtMtimes}]
    /\ tdirs = {"."} \cup {DirOf(f) : f \in {g \in Files : tgt[g].exists}}
    /\ now = InitNow

InitRun ==
    /\ pc = "start"
    /\ run = 1
    /\ files = <<>>
    /\ idx = 0
    /\ cur = NoLocals
    /\ cnt = ZeroCounters
    /\ hist = NoHist
    /\ last = NoStep
    /\ envCount = 0
    /\ prevClean = FALSE

\* DirectoryConvertor as its constructor leaves it: load_config sets
\* video.convert to False, and its only way to True (-V) raises
\* AttributeError on self.args.video before the assignment.
Init ==
    /\ prog = "tree"
    /\ \E copy \in BOOLEAN, delete \in BOOLEAN, o \in OlderThanValues :
         /\ config = [copy_files |-> copy, delete_files |-> delete,
                      convert |-> FALSE, older_than |-> o]
         /\ real_run = tree_real_run(copy, delete)
    /\ InitFS({AviFaulty})
    /\ InitRun

\* DirectoryConvertor.run and FileProcessor handed any resolved
\* configuration object (video.convert included).
InitConfig ==
    /\ prog = "tree"
    /\ \E copy \in BOOLEAN, delete \in BOOLEAN, conv \in BOOLEAN, o \in OlderThanValues :
         /\ config = [copy_files |-> copy, delete_files |-> delete,
                      convert |-> conv, older_than |-> o]
         /\ real_run = tree_real_run(copy, delete)
    /\ InitFS(AviData)
    /\ InitRun

\* SightingManager as its constructor leaves it.
InitSightings ==
    /\ prog = "sightings"
    /\ \E copy \in BOOLEAN, delete \in BOOLEAN, conv \in BOOLEAN, o \in OlderThanValues :
         /\ config = [copy_files |-> copy, delete_files |-> delete,
                      convert |-> conv, older_than |-> o]
         /\ real_run = ~sightings_dry_run(copy, delete)
    /\ InitFS({AviFaulty})
    /\ InitRun

----------------------------------------------------------------------------
(* The decisions of the loop body *)

\* is_updated: source_age < target_age, only looked at when the target exists
is_updated(is_copied, source_age, target_age) ==
    is_copied /\ source_age < target_age

\* An age test that leaves the boundary out
is_old_strict(source_age, older_than) == days(source_age) > older_than

\* is_old = (source_age.days >= self.config.older_than)
is_old(source_age, older_than) == days(source_age) >= older_than

\* The decision read with the other precedence
should_process_gated(copied, updated, copy_files) ==
    ((~copied) \/ updated) /\ copy_files

\* should_process = not is_copied or is_updated and self.config.copy_files
should_process(copied, updated, copy_files) ==
    (~copied) \/ (updated /\ copy_files)

\* should_delete = is_old and is_copied and self.config.delete_files
should_delete(old, copied, delete_files) ==
    old /\ copied /\ delete_files

----------------------------------------------------------------------------
(* Helpers of the traversal *)

\* sorted(files)
SortedSeq(S) ==
    CHOOSE s \in [1..Cardinality(S) -> S] :
        \A i, j \in 1..Cardinality(S) : i < j => s[i] < s[j]

InLoop == pc \in {"stat_mtime", "stat_size", "classify", "process",
                  "process_stat", "delete"}

source_path == files[idx]

\* A loop that ends at the first file whose body is left
NextPc_abort == "done"

\* The position after the body of the current file: the next file, or the
\* summary report after the last one.
NextPc == IF idx < Len(files) THEN "stat_mtime" ELSE "done"
NextIdx == IF idx < Len(files) THEN idx + 1 ELSE idx

\* The outer handler: except FileNotFoundError: "File not found, skipping"
SkipFile ==
    /\ pc' = NextPc
    /\ idx' = NextIdx

\* Every exception of the process step absorbed by the inner handler
ProcessFailurePc_absorbed(kind) == "delete"

\* Where an exception raised inside the process step is caught.
\* tree.py lists FileNotFoundError first, counts and re-raises it to the
\* outer handler; sightings.py lists OSError first, which catches
\* FileNotFoundError as well and goes on with the delete step.
ProcessFailurePc(kind) ==
    IF prog = "tree" /\ kind = "fnf" THEN NextPc ELSE "delete"
ProcessFailureIdx(kind) ==
    IF prog = "tree" /\ kind = "fnf" THEN NextIdx ELSE idx

----------------------------------------------------------------------------
(* run(): start of a run, and the two stats of the loop body *)

\* start = utcnow(); files = rglob('*.*'); the counters are set to 0;
\* for file in sorted(files)
StartRun ==
    /\ pc = "start"
    /\ files' = SortedSeq({f \in Files : src[f].exists})
    /\ cnt' = ZeroCounters
    /\ hist' = NoHist
    /\ cur' = NoLocals
    /\ idx' = IF files' = <<>> THEN 0 ELSE 1
    /\ pc' = IF files' = <<>> THEN "done" ELSE "stat_mtime"
    /\ last' = Step("start", 0, "ok")
    /\ UNCHANGED <<prog, config, real_run, src, tgt, tdirs, now, run, envCount, prevClean>>

\* source_age = utcnow() - fromtimestamp(file.stat().st_mtime)
StatMtime ==
    /\ pc = "stat_mtime"
    /\ LET f == source_path IN
       /\ hist' = [hist EXCEPT !.visited = @ \cup {f}]
       /\ IF src[f].exists
          THEN /\ cur' = [NoLocals EXCEPT !.source_age = now - src[f].mtime]
               /\ pc' = "stat_size"
               /\ idx' = idx
               /\ last' = Step("stat_mtime", f, "ok")
          ELSE /\ cur' = NoLocals
               /\ SkipFile
               /\ last' = Step("stat_mtime", f, "fnf")
    /\ UNCHANGED <<prog, config, real_run, src, tgt, tdirs, now, run, files,
                   cnt, envCount, prevClean>>

\* inspected += 1; inspected_size += source_path.stat().st_size
StatSize ==
    /\ pc = "stat_size"
    /\ LET f == source_path IN
       IF src[f].exists
       THEN /\ cnt' = [cnt EXCEPT !.inspected = @ + 1,
                                  !.inspected_size = @ + st_size(src[f])]
            /\ pc' = "classify"
            /\ idx' = idx
            /\ last' = Step("stat_size", f, "ok")
       ELSE /\ cnt' = [cnt EXCEPT !.inspected = @ + 1]
            /\ SkipFile
            /\ last' = Step("stat_size", f, "fnf")
    /\ UNCHANGED <<prog, config, real_run, src, tgt, tdirs, now, run, files,
                   cur, hist, envCount, prevClean>>

\* is_copied, target_age, is_updated, is_old, should_process, should_delete
Classify ==
    /\ pc = "classify"
    /\ LET f          == source_path
           copied     == tgt[f].exists
           target_age == now - tgt[f].mtime
           updated    == is_updated(copied, cur.source_age, target_age)
           old        == is_old(cur.source_age, config.older_than)
       IN
       /\ cur' = [cur EXCEPT
                    !.is_copied = copied,
                    !.is_updated = updated,
                    !.is_old = old,
                    !.should_process = should_process(copied, updated, config.copy_files),
                    !.should_delete = should_delete(old, copied, config.delete_files)]
       /\ hist' = [hist EXCEPT !.toDelete =
                        IF should_delete(old, copied, config.delete_files)
                        THEN @ \cup {f} ELSE @]
       /\ last' = Step("classify", f, "ok")
    /\ pc' = "process"
    /\ UNCHANGED <<prog, config, real_run, src, tgt, tdirs, now, run, files,
                   idx, cnt, envCount, prevClean>>

----------------------------------------------------------------------------
(* FileProcessor (and the same methods of SightingManager): the possible   *)
(* results of one call, each with the state of the file system it leaves.  *)

Res(o, size, s, t, d, w) ==
    [outcome |-> o, size |-> size, src |-> s, tgt |-> t, tdirs |-> d, wrote |-> w,
     header |-> FALSE]

\* A result of a call in which the header check ran to its end
WithHeader(r) == [r EXCEPT !.header = TRUE]

\* target.parent.mkdir(parents=True, exist_ok=True)
mkdir(f) == tdirs \cup {DirOf(f)}

\* copy(source, target): mkdir and shutil.copy when the gate is open;
\* returns 0. shutil.copy raises FileNotFoundError for a missing source and
\* may fail with another OSError (permission denied, disk full).
copy(f) ==
    IF ~CopyGate
    THEN {Res("ok", 0, src[f], tgt[f], tdirs, FALSE)}
    ELSE IF ~src[f].exists
    THEN {Res("fnf", 0, src[f], tgt[f], mkdir(f), FALSE)}
    ELSE {Res("ok", 0, src[f], MkFile(now, src[f].data), mkdir(f), TRUE),
          Res("oserror", 0, src[f], tgt[f], mkdir(f), FALSE)}

\* convert_avi(source, target): 0 for a missing source; the header check
\* (open(path, 'r+b') may be refused); mkdir; then the encoder when the gate
\* is open (OSError on a return code other than 0; the encoder, run with
\* -y, may have left an output file behind), returning
\* source size - target size, or 0 when it is closed.
convert_avi(f) ==
    IF ~src[f].exists
    THEN {Res("ok", 0, src[f], tgt[f], tdirs, FALSE)}
    ELSE LET patched == Blob(correct_video_header(HeaderWrites, Bytes(src[f].data)))
             s2 == IF patched = src[f].data THEN src[f] ELSE MkFile(now, patched)
         IN  {Res("oserror", 0, src[f], tgt[f], tdirs, FALSE)}
             \cup
             (IF CopyGate
              THEN {WithHeader(Res("oserror", 0, s2, t, mkdir(f), FALSE)) :
                            t \in {tgt[f], MkFile(now, Empty)}}
                   \cup {WithHeader(Res("ok", st_size(s2) - Len(Bytes(out)), s2,
                                        MkFile(now, out), mkdir(f), TRUE)) :
                            out \in EncoderOutputs}
              ELSE {WithHeader(Res("ok", 0, s2, tgt[f], mkdir(f), FALSE))})

\* process(source, target): videos are converted when video.convert is set,
\* everything else is copied
process(f) ==
    IF IsAvi(f) /\ config.convert THEN convert_avi(f) ELSE copy(f)

\* FileProcessor.delete(path): stat and unlink when the gate is open,
\* returning the size; 0 otherwise.
\* SightingManager.run takes the size itself (source_path.stat().st_size)
\* and SightingManager.delete unlinks when the gate is open.
delete(f) ==
    IF prog = "tree" /\ ~DeleteGate
    THEN {Res("ok", 0, src[f], tgt[f], tdirs, FALSE)}
    ELSE IF ~src[f].exists
    THEN {Res("fnf", 0, src[f], tgt[f], tdirs, FALSE)}
    ELSE IF ~DeleteGate
    THEN {Res("ok", st_size(src[f]), src[f], tgt[f], tdirs, FALSE)}
    ELSE {Res("ok", st_size(src[f]), NoFile, tgt[f], tdirs, TRUE),
          Res("oserror", 0, src[f], tgt[f], tdirs, FALSE)}

\* What the delete step of run() adds to deleted_size.
\* DirectoryConvertor.delete calls self.processor.delete(path) and returns
\* nothing, so run() receives None; SightingManager.run uses its own size.
None == <<>>
delete_result(size) == IF prog = "tree" THEN None ELSE <<size>>

\* int += None raises TypeError, which no except clause of run() catches
RaisesTypeError(x) == x = None

\* The target is missing, or older than the source by modification time.
NotMirrored(f) == ~tgt[f].exists \/ src[f].mtime > tgt[f].mtime

----------------------------------------------------------------------------
(* run(): the process step and the delete step of the loop body *)

\* if should_process: size = self.process(source_path, target_path);
\* processed += 1, or process_failed += 1 in the except clause that catches
Process ==
    /\ pc = "process"
    /\ LET f == source_path IN
       IF ~cur.should_process
       THEN /\ pc' = "delete"
            /\ last' = Step("process", f, "skip")
            /\ UNCHANGED <<src, tgt, tdirs, idx, cur, cnt, hist>>
       ELSE \E r \in process(f) :
            /\ src' = [src EXCEPT ![f] = r.src]
            /\ tgt' = [tgt EXCEPT ![f] = r.tgt]
            /\ tdirs' = r.tdirs
            /\ last' = Step("process", f, r.outcome)
            /\ IF r.outcome = "ok"
               THEN /\ cnt' = [cnt EXCEPT !.processed = @ + 1]
                    /\ cur' = [cur EXCEPT !.size = r.size]
                    /\ pc' = "process_stat"
                    /\ idx' = idx
                    /\ hist' = [hist EXCEPT
                                  !.processCalled = @ \cup {f},
                                  !.processReturned = @ \cup {f},
                                  !.headerChecked = IF r.header THEN @ \cup {f} ELSE @,
                                  !.wrote = IF r.wrote THEN @ \cup {f} ELSE @]
               ELSE /\ cnt' = [cnt EXCEPT !.process_failed = @ + 1]
                    /\ cur' = cur
                    /\ pc' = ProcessFailurePc(r.outcome)
                    /\ idx' = ProcessFailureIdx(r.outcome)
                    /\ hist' = [hist EXCEPT
                                  !.processCalled = @ \cup {f},
                                  !.headerChecked = IF r.header THEN @ \cup {f} ELSE @]
    /\ UNCHANGED <<prog, config, real_run, now, run, files, envCount, prevClean>>

\* processed_size += source_path.stat().st_size; reclaimed_size += size
ProcessStat ==
    /\ pc = "process_stat"
    /\ LET f == source_path IN
       IF src[f].exists
       THEN /\ cnt' = [cnt EXCEPT !.processed_size = @ + st_size(src[f]),
                                  !.reclaimed_size = @ + cur.size]
            /\ pc' = "delete"
            /\ idx' = idx
            /\ last' = Step("process_stat", f, "ok")
       ELSE /\ cnt' = [cnt EXCEPT !.process_failed = @ + 1]
            /\ pc' = ProcessFailurePc("fnf")
            /\ idx' = ProcessFailureIdx("fnf")
            /\ last' = Step("process_stat", f, "fnf")
    /\ UNCHANGED <<prog, config, real_run, src, tgt, tdirs, now, run, files,
                   cur, hist, envCount, prevClean>>

\* if should_delete: deleted_size += self.delete(source_path); deleted += 1
\* (sightings.py: size = stat; self.delete(); deleted += 1; deleted_size += size),
\* or delete_failed += 1 in the except clause that catches; then the next
\* file, or the summary report after the last one.
Delete ==
    /\ pc = "delete"
    /\ LET f == source_path IN
       IF ~cur.should_delete
       THEN /\ pc' = NextPc
            /\ idx' = NextIdx
            /\ last' = Step("delete", f, "skip")
            /\ UNCHANGED <<src, cnt, hist>>
       ELSE \E r \in delete(f) :
            /\ src' = [src EXCEPT ![f] = r.src]
            /\ IF r.outcome # "ok"
               THEN /\ cnt' = [cnt EXCEPT !.delete_failed = @ + 1]
                    /\ pc' = NextPc
                    /\ idx' = NextIdx
                    /\ last' = Step("delete", f, r.outcome)
                    /\ hist' = [hist EXCEPT !.deleteCalled = @ \cup {f}]
               ELSE /\ hist' = [hist EXCEPT
                                  !.deleteCalled = @ \cup {f},
                                  !.deleteReturned = @ \cup {f},
                                  !.removed = IF r.wrote THEN @ \cup {f} ELSE @,
                                  !.staleAtRemoval =
                                      IF r.wrote /\ NotMirrored(f) THEN @ \cup {f} ELSE @]
                    /\ IF RaisesTypeError(delete_result(r.size))
                       THEN /\ cnt' = cnt
                            /\ pc' = "crashed"
                            /\ idx' = idx
                            /\ last' = Step("delete", f, "typeerror")
                       ELSE /\ cnt' = [cnt EXCEPT
                                         !.deleted = @ + 1,
                                         !.deleted_size = @ + delete_result(r.size)[1]]
                            /\ pc' = NextPc
                            /\ idx' = NextIdx
                            /\ last' = Step("delete", f, "ok")
    /\ UNCHANGED <<prog, config, real_run, tgt, tdirs, now, run, files, cur,
                   envCount, prevClean>>

----------------------------------------------------------------------------
(* The world around the program *)

\* The tool is started again after a run that ended with its report.
Restart ==
    /\ pc = "done"
    /\ run < MaxRuns
    /\ run' = run + 1
    /\ pc' = "start"
    /\ last' = NoStep
    /\ prevClean' = (cnt.process_failed = 0 /\ cnt.delete_failed = 0)
    /\ UNCHANGED <<prog, config, real_run, src, tgt, tdirs, now, files, idx,
                   cur, cnt, hist, envCount>>

\* Time passes. The program reads the clock in utcnow() (before the stat
\* of the source and before the stat of the target) and the file system
\* reads it when process writes a file: the clock advances before these
\* steps, and before a run starts.
Tick ==
    /\ now < MaxClock
    /\ pc \in {"start", "stat_mtime", "classify", "process"}
    /\ now' = now + 1
    /\ UNCHANGED <<prog, config, real_run, src, tgt, tdirs, pc, run, files,
                   idx, cur, cnt, hist, last, envCount, prevClean>>

\* Somebody else removes a source file while a run is under way: the file
\* the loop is visiting, before any step of its body that touches it (the
\* removal of a file the loop has not reached yet is its removal just
\* before the loop reaches it).
EnvRemove ==
    /\ pc \in {"stat_mtime", "stat_size", "process", "process_stat", "delete"}
    /\ envCount < MaxEnv
    /\ LET f == source_path IN
         /\ src[f].exists
         /\ src' = [src EXCEPT ![f] = NoFile]
    /\ envCount' = envCount + 1
    /\ UNCHANGED <<prog, config, real_run, tgt, tdirs, now, pc, run, files,
                   idx, cur, cnt, hist, last, prevClean>>

ProgramStep ==
    \/ StartRun
    \/ StatMtime
    \/ StatSize
    \/ Classify
    \/ Process
    \/ ProcessStat
    \/ Delete

Next ==
    \/ StartRun
    \/ StatMtime
    \/ StatSize
    \/ Classify
    \/ Process
    \/ ProcessStat
    \/ Delete
    \/ Restart
    \/ Tick
    \/ EnvRemove

Spec          == Init /\ [][Next]_vars
SpecConfig    == InitConfig /\ [][Next]_vars
SpecSightings == InitSightings /\ [][Next]_vars

\* Both revisions, each with any resolved configuration.
InitAll == InitConfig \/ InitSightings
SpecAll == InitAll /\ [][Next]_vars

----------------------------------------------------------------------------
(* Claims *)

\* C1: when the run mode given to the File Processor is dry run, no step of
\* DirectoryConvertor.run changes the source tree or the target tree (files,
\* directories, contents), whether the file goes through copy, convert_avi
\* or delete; inspected and processed are still incremented.
C1_DryRunLeavesTreesUnchanged ==
    [][(prog = "tree" /\ ~real_run /\ ProgramStep) =>
          /\ UNCHANGED fsvars
          /\ (pc = "stat_size" => cnt'.inspected = cnt.inspected + 1)
          /\ (pc = "process" /\ last'.outcome = "ok" =>
                cnt'.processed = cnt.processed + 1)]_vars

\* C2: a file with should_process whose process call returned was really
\* copied or transcoded into the target tree if and only if copy_files is
\* enabled; a file with should_delete whose delete call returned was really
\* removed from the source tree; with neither option enabled nothing is
\* copied, transcoded or removed.
C2_OptionsGateRealActions ==
    /\ \A f \in hist.processReturned : (f \in hist.wrote <=> config.copy_files)
    /\ \A f \in hist.deleteReturned : f \in hist.removed
    /\ (~config.copy_files /\ ~config.delete_files) =>
          (hist.wrote = {} /\ hist.removed = {})

\* C3: whenever the delete step removes a source file, its target exists
\* and is not stale (the source's modification time is not more recent than
\* the target's) at the moment of removal.
C3_PurgedOnlyWhenMirrored ==
    hist.staleAtRemoval = {}

\* C4 (as claimed): once process or delete has raised file-not-found for a
\* file, the traversal is over: the loop visits no further file.
C4_MissingFileAbortsRun ==
    (last.op \in {"process", "delete"} /\ last.outcome = "fnf") => ~InLoop

\* C4 (amended): a file-not-found raised by process (the call, or the stat
\* after it) or by delete does not end the run: the matching failure
\* counter grows by one, no other counter changes in that step, and the
\* traversal goes on. DirectoryConvertor.run skips the rest of the file's
\* body and goes to the next file of the listing (the summary report after
\* the last one); SightingManager.run goes on with the file's delete step
\* after a failed process and to the next file after a failed delete.
C4_MissingFileContinues ==
    [][/\ (pc \in {"process", "process_stat"} /\ pc' # pc /\ last'.outcome = "fnf") =>
             /\ cnt' = [cnt EXCEPT !.process_failed = @ + 1]
             /\ files' = files
             /\ hist'.deleteCalled = hist.deleteCalled
             /\ IF prog = "sightings"
                THEN pc' = "delete" /\ idx' = idx
                ELSE IF idx < Len(files)
                THEN pc' = "stat_mtime" /\ idx' = idx + 1
                ELSE pc' = "done"
       /\ (pc = "delete" /\ pc' # pc /\ last'.outcome = "fnf") =>
             /\ cnt' = [cnt EXCEPT !.delete_failed = @ + 1]
             /\ files' = files
             /\ IF idx < Len(files)
                THEN pc' = "stat_mtime" /\ idx' = idx + 1
                ELSE pc' = "done"]_vars

\* A missing source made the copy of the first file fail, the failure was
\* counted, and the loop is at the second file.
C4_Witness ==
    /\ last.op = "process" /\ last.outcome = "fnf" /\ last.file = files[1]
    /\ cnt.process_failed = 1
    /\ pc = "stat_mtime" /\ idx = 2

\* C5: when process or delete fails with an OS error other than
\* file-not-found, the matching failure counter grows by exactly one, no
\* other counter or byte total changes, and the traversal goes on: to the
\* file's delete step after a failed process, to the next file after a
\* failed delete; a run that ends with its report has visited every file
\* of its listing.
C5_RecoverableFailureContinues ==
    [][/\ (pc = "process" /\ pc' # pc /\ last'.outcome = "oserror") =>
             /\ cnt' = [cnt EXCEPT !.process_failed = @ + 1]
             /\ files' = files
             /\ pc' = "delete" /\ idx' = idx
       /\ (pc = "delete" /\ pc' # pc /\ last'.outcome = "oserror") =>
             /\ cnt' = [cnt EXCEPT !.delete_failed = @ + 1]
             /\ files' = files
             /\ IF idx < Len(files)
                THEN pc' = "stat_mtime" /\ idx' = idx + 1
                ELSE pc' = "done"
       /\ (pc' = "done" => hist'.visited = {files'[i] : i \in 1..Len(files')})]_vars

\* The encoder failed on the first file of DirectoryConvertor's run: one
\* failure is counted, nothing is counted as processed, the loop goes on.
C5_Witness ==
    /\ prog = "tree" /\ config.convert
    /\ last.op = "process" /\ last.outcome = "oserror"
    /\ last.file \in hist.headerChecked
    /\ cnt.process_failed = 1 /\ cnt.processed = 0 /\ cnt.processed_size = 0
    /\ pc = "delete"

\* C6: in the run that follows a complete run with copy enabled and no
\* failures, with no change to the source tree in between, every file is
\* classified is_copied and not is_updated, should_process is false for it
\* and no target file is written.
C6_SecondRunIdempotent ==
    (run = 2 /\ prevClean /\ config.copy_files /\ envCount = 0 /\ pc # "start") =>
        /\ (pc \in {"process", "process_stat", "delete"} =>
               cur.is_copied /\ ~cur.is_updated /\ ~cur.should_process)
        /\ hist.wrote = {}

\* C7: should_process = (not is_copied) or (is_updated and copy_files):
\* true for every file whose target does not exist, whatever copy_files is,
\* and for a file whose target exists exactly when is_updated and
\* copy_files are both true.
C7_ProcessDecision ==
    pc = "process" =>
        LET copied == tgt[files[idx]].exists IN
        /\ cur.is_copied = copied
        /\ (~copied => cur.should_process)
        /\ (copied => (cur.should_process <=> (cur.is_updated /\ config.copy_files)))

\* A file without a target is selected for processing with copy_files off.
C7_Witness ==
    /\ pc = "process"
    /\ ~tgt[files[idx]].exists
    /\ ~config.copy_files
    /\ cur.should_process

\* C8: should_delete is true if and only if is_old (source age in whole
\* days >= older_than, equality included), is_copied (the target exists at
\* classification) and delete_files are all true; the delete operation is
\* invoked only for files so classified.
C8_DeleteDecision ==
    /\ pc \in {"process", "process_stat", "delete"} =>
          /\ cur.is_old <=> (cur.source_age \div DayTicks >= config.older_than)
          /\ cur.should_delete <=>
                (cur.is_old /\ cur.is_copied /\ config.delete_files)
          /\ cur.should_delete <=> (files[idx] \in hist.toDelete)
    /\ pc = "process" => (cur.is_copied <=> tgt[files[idx]].exists)
    /\ hist.deleteCalled \subseteq hist.toDelete

\* Delete was invoked for a file whose age is exactly older_than days.
C8_Witness ==
    /\ last.op = "delete" /\ last.file \in hist.deleteCalled
    /\ cur.source_age \div DayTicks = config.older_than
    /\ cur.should_delete

\* C9: a run ends with the summary report: no run is ended by an exception
\* that leaves run() (the missing-file condition never leaves the loop).
C9_RunEndsWithReport ==
    pc # "crashed"

\* C10: after correct_video_header on a file whose 4 bytes at offset 188
\* are "Y16 ", those bytes are "Y800" in a real run and still "Y16 " in a
\* dry run, and every other byte is unchanged; any other file (other bytes
\* there, or shorter than 192 bytes) is byte-identical after the call.
C10_HeaderPatcher ==
    [][\A f \in Files :
         (prog = "tree" /\ f \in hist'.headerChecked /\ f \notin hist.headerChecked) =>
            LET before == Bytes(src[f].data)
                after  == Bytes(src'[f].data)
                faulty == /\ Len(before) >= 192
                          /\ before[189] = 89 /\ before[190] = 49
                          /\ before[191] = 54 /\ before[192] = 32
            IN  /\ Len(after) = Len(before)
                /\ \A i \in 1..Len(before) :
                      (i < 189 \/ i > 192) => after[i] = before[i]
                /\ (faulty /\ real_run) =>
                      /\ after[189] = 89 /\ after[190] = 56
                      /\ after[191] = 48 /\ after[192] = 48
                /\ (faulty /\ ~real_run) => after = before
                /\ ~faulty => after = before]_vars

\* A real run of the File Processor has corrected a faulty header.
C10_Witness ==
    /\ prog = "tree" /\ real_run
    /\ \E f \in hist.headerChecked :
          /\ src[f].exists
          /\ SubSeq(Bytes(src[f].data), 189, 192) = <<89, 56, 48, 48>>

\* C11: whenever the delete operation completes without raising for a file
\* with should_delete, deleted grows by exactly one and deleted_size by the
\* size the delete operation returned (the file's size in a real run, zero
\* in a dry run of the File Processor); when the pass is over, deleted is
\* the number of files whose delete completed without raising.
C11_DeletionAccounted ==
    [][/\ \A f \in Files :
            (pc = "delete" /\ f \in hist'.deleteReturned /\ f \notin hist.deleteReturned) =>
               /\ cnt'.deleted = cnt.deleted + 1
               /\ cnt'.deleted_size = cnt.deleted_size +
                     (IF prog = "tree" /\ ~DeleteGate THEN 0 ELSE st_size(src[f]))
       /\ (pc' = "done" => cnt'.deleted = Cardinality(hist'.deleteReturned))]_vars

\* C12: no step of the traversal leaves any run counter smaller than it was
\* before the step, whatever the outcome of process (a transcode whose
\* output is larger than its input included) or of delete.
C12_CountersMonotone ==
    [][pc # "start" =>
          /\ cnt'.inspected >= cnt.inspected
          /\ cnt'.inspected_size >= cnt.inspected_size
          /\ cnt'.processed >= cnt.processed
          /\ cnt'.processed_size >= cnt.processed_size
          /\ cnt'.reclaimed_size >= cnt.reclaimed_size
          /\ cnt'.deleted >= cnt.deleted
          /\ cnt'.deleted_size >= cnt.deleted_size
          /\ cnt'.process_failed >= cnt.process_failed
          /\ cnt'.delete_failed >= cnt.delete_failed]_vars

\* C13: for a file whose target exists, is_updated is true if and only if
\* the source's modification time is strictly more recent than the
\* target's, and with copy_files enabled the file is selected for
\* processing exactly then, however much the clock advances between the
\* two age computations.
C13_StalenessFromMtimes ==
    [][(pc = "classify" /\ pc' = "process" /\ tgt[files[idx]].exists) =>
          LET newer == src[files[idx]].mtime > tgt[files[idx]].mtime IN
          /\ cur'.is_updated <=> newer
          /\ config.copy_files => (cur'.should_process <=> newer)]_vars

\* C14: each file of the listing is visited once, and a step either adds 1
\* to inspected and the file's size to inspected_size, or adds to neither,
\* also when the file vanishes between the two stats.
C14_InspectedAllOrNothing ==
    [][pc # "start" =>
          /\ (pc = "stat_mtime" /\ pc' # pc) => files[idx] \notin hist.visited
          /\ \/ /\ cnt'.inspected = cnt.inspected
                /\ cnt'.inspected_size = cnt.inspected_size
             \/ /\ pc = "stat_size"
                /\ src[files[idx]].exists
                /\ cnt'.inspected = cnt.inspected + 1
                /\ cnt'.inspected_size = cnt.inspected_size + st_size(src[files[idx]])]_vars

\* C15: for every file whose process was attempted exactly one of processed
\* and process_failed is incremented: at every point after the file's
\* process step and the stat that follows it, processed + process_failed is
\* the number of files for which process was attempted.
C15_ProcessOutcomeCountedOnce ==
    pc # "process_stat" =>
        cnt.processed + cnt.process_failed = Cardinality(hist.processCalled)

====
